---- MODULE Spec2Model ----
(***************************************************************************)
(* Sentiment chatbot: SentimentAnalyzer (src/sentiment_analyzer.py) and    *)
(* SentimentChatbot (src/chatbot.py).                                      *)
(*                                                                         *)
(* Numbers.  The engine reports compound scores rounded to four decimals,  *)
(* so a score is an integer in units of 10^-4 (0.05 is 500).  A double     *)
(* computed from scores (a mean, a difference of means) is kept as the     *)
(* exact fraction num/den (units of 10^-4) together with err, the sign of  *)
(* the rounding error the double arithmetic left on it: err matters only   *)
(* when the exact value sits on a threshold, where the double may have     *)
(* landed on it, just below it or just above it.  Which of the three       *)
(* happens is a property of the inputs and of the build (sum() is          *)
(* compensated from Python 3.12 on); the variable fp fixes it for a run.   *)
(***************************************************************************)
EXTENDS Integers, Sequences, FiniteSets, TLC

VARIABLES
    conversation_history,   \* SentimentChatbot.conversation_history
    user_name,              \* SentimentChatbot.user_name
    fp,                     \* rounding errors of the build's double arithmetic
    pc,                     \* "idle", or "call" while a direct analyzer call is pending;
                            \* in ChatbotCLI.run: "input", "final", "done"
    op,                     \* the operation called last
    before,                 \* conversation_history when it was called
    arg,                    \* its argument
    ret,                    \* what it returned or raised
    calls,                  \* the inputs it handed to the engine, in order
    show_tier2,             \* ChatbotCLI.show_tier2
    stdout                  \* what the last step of ChatbotCLI.run printed

vars == <<conversation_history, user_name, fp, pc, op, before, arg, ret, calls,
          show_tier2, stdout>>

(***************************************************************************)
(* Bounds of the model.                                                    *)
(***************************************************************************)
MaxMessages == 2    \* process_message calls between two resets
MaxTurns == 4       \* turns of a sequence given to analyze_conversation directly

(***************************************************************************)
(* Program constants, in units of 10^-4.                                   *)
(***************************************************************************)
ScoreMax == 10000
PositiveThreshold == 500
NegativeThreshold == -500
ImprovingThreshold == 2000
DecliningThreshold == -2000

(***************************************************************************)
(* Python values: a str is its characters, None is None.  A call returns   *)
(* a value or raises.                                                      *)
(***************************************************************************)
Str(chars) == [type |-> "str", val |-> chars]
None == [type |-> "NoneType", val |-> <<>>]
IsStr(x) == x.type = "str"
Falsy(x) == x.type = "NoneType" \/ x.val = <<>>

Return(v) == [ok |-> TRUE, value |-> v]
Raise(e, who) == [ok |-> FALSE, error |-> e, raised_by |-> who]

(***************************************************************************)
(* Doubles.                                                                *)
(***************************************************************************)
Flt(num, den, err) == [num |-> num, den |-> den, err |-> err]
Exact(c) == Flt(c, 1, 0)

\* sign of x - t for a double x and the literal t (units of 10^-4)
FloatCmp(x, t) ==
    IF x.num > t * x.den THEN 1
    ELSE IF x.num < t * x.den THEN -1
    ELSE x.err

RECURSIVE SumCompound(_)
SumCompound(sentiments) ==
    IF sentiments = <<>> THEN 0
    ELSE sentiments[1].compound + SumCompound(Tail(sentiments))

\* sum(s['compound'] for s in sentiments) / n
MeanCompound(sentiments, n, err) ==
    IF n = 0 THEN Raise("ZeroDivisionError", "python")
    ELSE Return(Flt(SumCompound(sentiments), n,
                    IF Len(sentiments) = 1 /\ n = 1 THEN 0 ELSE err))

\* The engine rounds its compound to four decimals: the score c (units of
\* 10^-4) is the double nearest to c / 10^4.  For c ending in 5 that double
\* decides how three decimals of it come out: it is the decimal itself when
\* c is a multiple of 625 (c / 10^4 is a multiple of 1/16), and lies above
\* it for the c of TiesAbove and below it for the others (-c mirrors c).
TiesAbove ==
    { 5, 15, 25, 35, 85, 105, 125, 145, 165, 175, 205, 235, 245, 275, 285,
      315, 325, 335, 345, 395, 405, 415, 425, 475, 485, 495, 505, 555, 565,
      575, 585, 635, 645, 655, 665, 675, 685, 695, 785, 795, 805, 815, 825,
      835, 845, 855, 945, 955, 965, 975, 985, 995, 1005, 1015, 1095, 1105,
      1115, 1125, 1135, 1145, 1155, 1165, 1255, 1265, 1275, 1285, 1295, 1305,
      1315, 1325, 1335, 1345, 1355, 1365, 1375, 1385, 1395, 1405, 1565, 1575,
      1585, 1595, 1605, 1615, 1625, 1635, 1645, 1655, 1665, 1675, 1685, 1695,
      1705, 1715, 1885, 1895, 1905, 1915, 1925, 1935, 1945, 1955, 1965, 1975,
      1985, 1995, 2005, 2015, 2025, 2195, 2205, 2215, 2225, 2235, 2245, 2255,
      2265, 2275, 2285, 2295, 2305, 2315, 2325, 2335, 2505, 2515, 2525, 2535,
      2545, 2555, 2565, 2575, 2585, 2595, 2605, 2615, 2625, 2635, 2645, 2655,
      2665, 2675, 2685, 2695, 2705, 2715, 2725, 2735, 2745, 2755, 2765, 2775,
      2785, 2795, 2805, 3135, 3145, 3155, 3165, 3175, 3185, 3195, 3205, 3215,
      3225, 3235, 3245, 3255, 3265, 3275, 3285, 3295, 3305, 3315, 3325, 3335,
      3345, 3355, 3365, 3375, 3385, 3395, 3405, 3415, 3425, 3435, 3755, 3765,
      3775, 3785, 3795, 3805, 3815, 3825, 3835, 3845, 3855, 3865, 3875, 3885,
      3895, 3905, 3915, 3925, 3935, 3945, 3955, 3965, 3975, 3985, 3995, 4005,
      4015, 4025, 4035, 4045, 4055, 4385, 4395, 4405, 4415, 4425, 4435, 4445,
      4455, 4465, 4475, 4485, 4495, 4505, 4515, 4525, 4535, 4545, 4555, 4565,
      4575, 4585, 4595, 4605, 4615, 4625, 4635, 4645, 4655, 4665, 4675, 4685,
      5635, 5645, 5655, 5665, 5675, 5685, 5695, 5705, 5715, 5725, 5735, 5745,
      5755, 5765, 5775, 5785, 5795, 5805, 5815, 5825, 5835, 5845, 5855, 5865,
      5875, 5885, 5895, 5905, 5915, 5925, 5935, 5945, 5955, 5965, 5975, 5985,
      5995, 6005, 6015, 6025, 6035, 6045, 6055, 6065, 6075, 6085, 6095, 6105,
      6115, 6125, 6135, 6145, 6155, 6165, 6175, 6185, 6195, 6205, 6215, 6225,
      6235, 6245, 6885, 6895, 6905, 6915, 6925, 6935, 6945, 6955, 6965, 6975,
      6985, 6995, 7005, 7015, 7025, 7035, 7045, 7055, 7065, 7075, 7085, 7095,
      7105, 7115, 7125, 7135, 7145, 7155, 7165, 7175, 7185, 7195, 7205, 7215,
      7225, 7235, 7245, 7255, 7265, 7275, 7285, 7295, 7305, 7315, 7325, 7335,
      7345, 7355, 7365, 7375, 7385, 7395, 7405, 7415, 7425, 7435, 7445, 7455,
      7465, 7475, 7485, 7495, 8135, 8145, 8155, 8165, 8175, 8185, 8195, 8205,
      8215, 8225, 8235, 8245, 8255, 8265, 8275, 8285, 8295, 8305, 8315, 8325,
      8335, 8345, 8355, 8365, 8375, 8385, 8395, 8405, 8415, 8425, 8435, 8445,
      8455, 8465, 8475, 8485, 8495, 8505, 8515, 8525, 8535, 8545, 8555, 8565,
      8575, 8585, 8595, 8605, 8615, 8625, 8635, 8645, 8655, 8665, 8675, 8685,
      8695, 8705, 8715, 8725, 8735, 8745, 9385, 9395, 9405, 9415, 9425, 9435,
      9445, 9455, 9465, 9475, 9485, 9495, 9505, 9515, 9525, 9535, 9545, 9555,
      9565, 9575, 9585, 9595, 9605, 9615, 9625, 9635, 9645, 9655, 9665, 9675,
      9685, 9695, 9705, 9715, 9725, 9735, 9745, 9755, 9765, 9775, 9785, 9795,
      9805, 9815, 9825, 9835, 9845, 9855, 9865, 9875, 9885, 9895, 9905, 9915,
      9925, 9935, 9945, 9955, 9965, 9975, 9985, 9995 }

\* the double of the score c, against the decimal c / 10^4: 1 above, -1 below,
\* 0 the same
DoubleOf(c) ==
    LET a == IF c < 0 THEN -c ELSE c
        up == IF a % 10 # 5 \/ a % 625 = 0 THEN 0
              ELSE IF a \in TiesAbove THEN 1 ELSE -1
    IN  IF c < 0 THEN -up ELSE up

\* f"{compound:.3f}" and round(compound, 3) of the double of the score c, in
\* units of 10^-3: the nearest multiple to the double, the even one if the
\* double lies midway
Format3(c) ==
    LET lo == c \div 10
        r == c - 10 * lo
    IN  IF r < 5 THEN lo
        ELSE IF r > 5 THEN lo + 1
        ELSE IF DoubleOf(c) > 0 THEN lo + 1
        ELSE IF DoubleOf(c) < 0 THEN lo
        ELSE IF lo % 2 = 0 THEN lo ELSE lo + 1

\* round(x, 3), in units of 10^-3: the nearest multiple; a decimal tie of a
\* quotient goes where the double's error puts it, to the even neighbour if
\* it has none; an engine score taken as it is (den = 1) is its double
Round3(x) ==
    LET unit == 10 * x.den
        lo == x.num \div unit
        twice == 2 * (x.num - lo * unit)
    IN  IF x.den = 1 THEN Format3(x.num)
        ELSE IF twice < unit THEN lo
        ELSE IF twice > unit THEN lo + 1
        ELSE IF fp.avg > 0 THEN lo + 1
        ELSE IF fp.avg < 0 THEN lo
        ELSE IF lo % 2 = 0 THEN lo ELSE lo + 1

(***************************************************************************)
(* The engine (vaderSentiment's SentimentIntensityAnalyzer) is external:   *)
(* polarity_scores is a table over the texts of the model.  Fractions      *)
(* pos/neu/neg are in units of 10^-3.  For the texts of the tests the      *)
(* figures stand for the engine's: the tests assert their label only.  The *)
(* engine iterates over its argument, which raises TypeError for None.     *)
(*                                                                         *)
(* A text is the sequence of its characters; a character outside printable *)
(* ASCII is written by its code point, "U+00A0", and so are the quotation  *)
(* mark ("U+0022"), the backslash ("U+005C") and the grave ("U+0060").     *)
(***************************************************************************)
T_hello == Str(<<"H", "e", "l", "l", "o", "!">>)
T_awful == Str(<<"T", "h", "i", "s", " ", "i", "s", " ", "a", "w", "f", "u", "l", " ",
                 "a", "n", "d", " ", "d", "i", "s", "a", "p", "p", "o", "i", "n", "t",
                 "i", "n", "g">>)
T_good == Str(<<"g", "o", "o", "d">>)
T_bad == Str(<<"b", "a", "d">>)
T_empty == Str(<<>>)
T_bye == Str(<<"G", "o", "o", "d", "b", "y", "e">>)
T_bug == Str(<<"b", "u", "g">>)
T_expensive == Str(<<"t", "o", "o", " ", "e", "x", "p", "e", "n", "s", "i", "v", "e">>)
T_badprice == Str(<<"b", "a", "d", " ", "p", "r", "i", "c", "e">>)
T_thanks == Str(<<"t", "h", "a", "n", "k", "s">>)

\* texts of the tests whose label the tests assert
T_love_service == Str(<<"I", " ", "l", "o", "v", "e", " ", "t", "h", "i",
                        "s", " ", "s", "e", "r", "v", "i", "c", "e", "!",
                        " ", "I", "t", "'", "s", " ", "a", "m", "a", "z",
                        "i", "n", "g", "!">>)
T_terrible == Str(<<"T", "h", "i", "s", " ", "i", "s", " ", "t", "e", "r",
                    "r", "i", "b", "l", "e", " ", "a", "n", "d", " ", "d",
                    "i", "s", "a", "p", "p", "o", "i", "n", "t", "i", "n",
                    "g">>)
T_product == Str(<<"T", "h", "e", " ", "p", "r", "o", "d", "u", "c", "t",
                   " ", "e", "x", "i", "s", "t", "s">>)
T_wonderful == Str(<<"T", "h", "i", "s", " ", "i", "s", " ", "w", "o", "n",
                     "d", "e", "r", "f", "u", "l", " ", "a", "n", "d", " ",
                     "a", "m", "a", "z", "i", "n", "g", "!">>)
T_love_perfect == Str(<<"I", " ", "a", "b", "s", "o", "l", "u", "t", "e",
                        "l", "y", " ", "l", "o", "v", "e", " ", "t", "h",
                        "i", "s", "!", " ", "I", "t", "'", "s", " ", "p",
                        "e", "r", "f", "e", "c", "t", "!">>)
T_hate_broken == Str(<<"I", " ", "h", "a", "t", "e", " ", "t", "h", "i",
                       "s", "!", " ", "I", "t", "'", "s", " ", "c", "o",
                       "m", "p", "l", "e", "t", "e", "l", "y", " ", "b",
                       "r", "o", "k", "e", "n", "!">>)

\* texts on and around the thresholds
M1 == Str(<<"m", "1">>)
M2 == Str(<<"m", "2">>)
M3 == Str(<<"m", "3">>)
M4 == Str(<<"m", "4">>)
M5 == Str(<<"m", "5">>)
M6 == Str(<<"m", "6">>)
M7 == Str(<<"m", "7">>)
M8 == Str(<<"m", "8">>)

\* texts with a price keyword whose score has a 5 as its fourth decimal
M9 == Str(<<"c", "o", "s", "t", " ", "m", "9">>)
M10 == Str(<<"c", "o", "s", "t", " ", "m", "1", "0">>)

Scores(c, pos, neu, neg) == [compound |-> c, pos |-> pos, neu |-> neu, neg |-> neg]

EngineTable ==
    { <<T_hello, Scores(0, 0, 1000, 0)>>,
      <<T_awful, Scores(-7351, 0, 326, 674)>>,
      <<T_good, Scores(4404, 1000, 0, 0)>>,
      <<T_bad, Scores(-5423, 0, 0, 1000)>>,
      <<T_empty, Scores(0, 0, 0, 0)>>,
      <<T_bye, Scores(0, 0, 1000, 0)>>,
      <<T_bug, Scores(0, 0, 1000, 0)>>,
      <<T_expensive, Scores(0, 0, 1000, 0)>>,
      <<T_badprice, Scores(-5423, 0, 263, 737)>>,
      <<T_thanks, Scores(4404, 1000, 0, 0)>>,
      <<T_love_service, Scores(8516, 644, 356, 0)>>,
      <<T_terrible, Scores(-7506, 0, 333, 667)>>,
      <<T_product, Scores(0, 0, 1000, 0)>>,
      <<T_wonderful, Scores(8172, 694, 306, 0)>>,
      <<T_love_perfect, Scores(8619, 660, 340, 0)>>,
      <<T_hate_broken, Scores(-8065, 0, 335, 665)>>,
      <<M1, Scores(-2001, 0, 800, 200)>>,
      <<M2, Scores(-500, 0, 950, 50)>>,
      <<M3, Scores(-499, 0, 950, 50)>>,
      <<M4, Scores(0, 0, 1000, 0)>>,
      <<M5, Scores(499, 50, 950, 0)>>,
      <<M6, Scores(500, 50, 950, 0)>>,
      <<M7, Scores(2000, 200, 800, 0)>>,
      <<M8, Scores(491, 49, 951, 0)>>,
      <<M9, Scores(5, 1, 999, 0)>>,
      <<M10, Scores(45, 5, 995, 0)>>
    }

\* A failure of the engine on a text.  The sources take no precaution against
\* one and none is known of the engine on a str; T_fault stands for a text on
\* which the call of line 29 raises, so that what the callers do then is
\* exercised with a text the command line can deliver.
T_fault == Str(<<"f", "a", "u", "l", "t">>)

polarity_scores(text) ==
    IF ~IsStr(text) THEN Raise("TypeError", "engine")
    ELSE IF text = T_fault THEN Raise("RuntimeError", "engine")
    ELSE Return((CHOOSE row \in EngineTable : row[1] = text)[2])

(***************************************************************************)
(* SentimentAnalyzer                                                       *)
(***************************************************************************)
\* mutant: the boundaries excluded
_get_sentiment_label_strict(compound_score) ==
    IF FloatCmp(compound_score, PositiveThreshold) > 0 THEN "Positive"
    ELSE IF FloatCmp(compound_score, NegativeThreshold) < 0 THEN "Negative"
    ELSE "Neutral"

_get_sentiment_label(compound_score) ==
    IF FloatCmp(compound_score, PositiveThreshold) >= 0 THEN "Positive"
    ELSE IF FloatCmp(compound_score, NegativeThreshold) <= 0 THEN "Negative"
    ELSE "Neutral"

analyze_message(message) ==
    LET scores == polarity_scores(message)
    IN  IF ~scores.ok THEN scores
        ELSE Return([compound |-> scores.value.compound,
                     positive |-> scores.value.pos,
                     neutral |-> scores.value.neu,
                     negative |-> scores.value.neg,
                     label |-> _get_sentiment_label(Exact(scores.value.compound))])

Insufficient == "Insufficient data"
Improving == "Improving (conversation became more positive)"
Declining == "Declining (conversation became more negative)"
Stable == "Stable (consistent mood throughout)"

\* second_half_avg - first_half_avg
FloatSub(a, b) == Flt(a.num * b.den - b.num * a.den, a.den * b.den, fp.diff)

\* mutant: a difference of exactly 0.2 already counts as a shift
_detect_mood_shift_inclusive(sentiments) ==
    IF Len(sentiments) < 2 THEN Return(Insufficient)
    ELSE
        LET mid_point == Len(sentiments) \div 2
            first_half_avg == MeanCompound(SubSeq(sentiments, 1, mid_point), mid_point, 0)
            second_half_avg == MeanCompound(SubSeq(sentiments, mid_point + 1, Len(sentiments)),
                                            Len(sentiments) - mid_point, 0)
            diff == FloatSub(second_half_avg.value, first_half_avg.value)
        IN  IF FloatCmp(diff, ImprovingThreshold) >= 0 THEN Return(Improving)
            ELSE IF FloatCmp(diff, DecliningThreshold) <= 0 THEN Return(Declining)
            ELSE Return(Stable)

_detect_mood_shift(sentiments) ==
    IF Len(sentiments) < 2 THEN Return(Insufficient)
    ELSE
        LET mid_point == Len(sentiments) \div 2
            first_half_avg == MeanCompound(SubSeq(sentiments, 1, mid_point), mid_point, 0)
            second_half_avg == MeanCompound(SubSeq(sentiments, mid_point + 1, Len(sentiments)),
                                            Len(sentiments) - mid_point, 0)
        IN  IF ~first_half_avg.ok THEN first_half_avg
            ELSE IF ~second_half_avg.ok THEN second_half_avg
            ELSE
                LET diff == FloatSub(second_half_avg.value, first_half_avg.value)
                IN  IF FloatCmp(diff, ImprovingThreshold) > 0 THEN Return(Improving)
                    ELSE IF FloatCmp(diff, DecliningThreshold) < 0 THEN Return(Declining)
                    ELSE Return(Stable)

\* mutant: the role is not looked at
UserMessages_AllRoles(messages) == [i \in 1..Len(messages) |-> messages[i][2]]

\* mutant: the user messages come out last first
UserMessages_Reversed(messages) ==
    LET users == SelectSeq(messages, LAMBDA turn : turn[1] = "user")
    IN  [i \in 1..Len(users) |-> users[Len(users) + 1 - i][2]]

\* [msg for role, msg in messages if role == 'user']
UserMessages(messages) ==
    LET users == SelectSeq(messages, LAMBDA turn : turn[1] = "user")
    IN  [i \in 1..Len(users) |-> users[i][2]]

\* mutant: a message whose scoring fails is skipped
RECURSIVE MessageSentiments_SkipFailed(_)
MessageSentiments_SkipFailed(user_messages) ==
    IF user_messages = <<>> THEN Return(<<>>)
    ELSE LET head == analyze_message(user_messages[1])
             rest == MessageSentiments_SkipFailed(Tail(user_messages))
         IN  IF ~head.ok THEN rest
             ELSE Return(<<head.value>> \o rest.value)

\* [self.analyze_message(msg) for msg in user_messages]: the first failure ends it
RECURSIVE MessageSentiments(_)
MessageSentiments(user_messages) ==
    IF user_messages = <<>> THEN Return(<<>>)
    ELSE LET head == analyze_message(user_messages[1])
         IN  IF ~head.ok THEN head
             ELSE LET rest == MessageSentiments(Tail(user_messages))
                  IN  IF ~rest.ok THEN rest
                      ELSE Return(<<head.value>> \o rest.value)

\* the engine calls of that comprehension
RECURSIVE ScoredMessages(_)
ScoredMessages(user_messages) ==
    IF user_messages = <<>> THEN <<>>
    ELSE IF ~analyze_message(user_messages[1]).ok THEN <<user_messages[1]>>
    ELSE <<user_messages[1]>> \o ScoredMessages(Tail(user_messages))

\* mutant: only the labels that occur get a key
SentimentCounts_SeenOnly(message_sentiments) ==
    [l \in {message_sentiments[i].label : i \in 1..Len(message_sentiments)} |->
        Cardinality({i \in 1..Len(message_sentiments) : message_sentiments[i].label = l})]

SentimentCounts(message_sentiments) ==
    [l \in {"Positive", "Neutral", "Negative"} |->
        Cardinality({i \in 1..Len(message_sentiments) : message_sentiments[i].label = l})]

EmptyReport ==
    [overall_sentiment |-> "Neutral",
     compound_score |-> 0,
     message_count |-> 0,
     sentiment_distribution |-> [l \in {} |-> 0]]

\* mutant: the label is taken from the rounded score
Report_LabelOfRounded(user_messages, message_sentiments, avg_compound, mood_shift) ==
    [overall_sentiment |-> _get_sentiment_label(Exact(10 * Round3(avg_compound))),
     compound_score |-> Round3(avg_compound),
     message_count |-> Len(user_messages),
     sentiment_distribution |-> SentimentCounts(message_sentiments),
     mood_shift |-> mood_shift,
     individual_scores |-> message_sentiments]

\* the dict analyze_conversation returns for a conversation with user messages
Report(user_messages, message_sentiments, avg_compound, mood_shift) ==
    [overall_sentiment |-> _get_sentiment_label(avg_compound),
     compound_score |-> Round3(avg_compound),
     message_count |-> Len(user_messages),
     sentiment_distribution |-> SentimentCounts(message_sentiments),
     mood_shift |-> mood_shift,
     individual_scores |-> message_sentiments]

analyze_conversation(messages) ==
    LET user_messages == UserMessages(messages)
    IN  IF user_messages = <<>> THEN Return(EmptyReport)
        ELSE
            LET message_sentiments == MessageSentiments(user_messages)
            IN  IF ~message_sentiments.ok THEN message_sentiments
                ELSE
                    LET avg_compound == MeanCompound(message_sentiments.value,
                                                     Len(message_sentiments.value), fp.avg)
                        mood_shift == _detect_mood_shift(message_sentiments.value)
                    IN  IF ~avg_compound.ok THEN avg_compound
                        ELSE IF ~mood_shift.ok THEN mood_shift
                        ELSE Return(Report(user_messages, message_sentiments.value,
                                           avg_compound.value, mood_shift.value))

AnalyzeConversationCalls(messages) == ScoredMessages(UserMessages(messages))

(***************************************************************************)
(* SentimentChatbot                                                        *)
(***************************************************************************)
Responses(key) ==
    CASE key = "Positive" ->
           << "That's wonderful to hear! I'm glad you're having a positive experience.",
              "Great! I'm happy to help you further.",
              "Excellent! Your satisfaction is important to us.",
              "That's fantastic! How else can I assist you today?",
              "I'm thrilled to hear that! Let me know if there's anything else." >>
      [] key = "Negative" ->
           << "I understand your frustration. Let me help resolve this for you.",
              "I apologize for the inconvenience. I'll make sure your concern is addressed.",
              "I'm sorry to hear that. Your feedback is valuable and I want to make this right.",
              "I hear your concerns. Let's work together to find a solution.",
              "I appreciate you bringing this to my attention. How can I improve your experience?" >>
      [] key = "Neutral" ->
           << "I understand. How can I assist you further?",
              "Thank you for sharing. What else would you like to know?",
              "Got it. Is there anything specific I can help with?",
              "I see. Let me know what you need.",
              "Understood. Feel free to ask me anything." >>
      [] key = "greeting" ->
           << "Hello! I'm here to help you. How are you doing today?",
              "Hi there! Welcome! What can I do for you?",
              "Greetings! I'm ready to assist you with anything you need.",
              "Hey! Great to chat with you. What's on your mind?" >>
      [] key = "farewell" ->
           << "Thank you for chatting with me! Have a wonderful day!",
              "Goodbye! Feel free to reach out anytime.",
              "Take care! It was nice talking with you.",
              "Farewell! Hope to chat again soon!" >>

\* the keys of self.responses
ResponseKeys == {"Positive", "Negative", "Neutral", "greeting", "farewell"}

\* a reply is a str the program never looks into: it is kept whole
Reply(s) == Str(<<s>>)

\* random.choice(seq): any element
Choice(seq) == {Reply(seq[i]) : i \in 1..Len(seq)}

UpperCase == <<"A", "B", "C", "D", "E", "F", "G", "H", "I", "J", "K", "L", "M",
               "N", "O", "P", "Q", "R", "S", "T", "U", "V", "W", "X", "Y", "Z">>
LowerCase == <<"a", "b", "c", "d", "e", "f", "g", "h", "i", "j", "k", "l", "m",
               "n", "o", "p", "q", "r", "s", "t", "u", "v", "w", "x", "y", "z">>

\* the characters str.strip() removes: those whose isspace() is true
Whitespace ==
    { " ", "\t", "\n", "\r", "\f", "U+000B", "U+001C", "U+001D", "U+001E", "U+001F",
      "U+0085", "U+00A0", "U+1680", "U+2000", "U+2001", "U+2002", "U+2003", "U+2004",
      "U+2005", "U+2006", "U+2007", "U+2008", "U+2009", "U+200A", "U+2028", "U+2029",
      "U+202F", "U+205F", "U+3000" }

\* The characters of the model: printable ASCII, the whitespace, Latin-1 and
\* some letters beyond it.  str.lower() is modelled on texts of these
\* characters, and not defined on others.
\*
\* the capitals outside A-Z with what str.lower() makes of them, but for the
\* capital sigma, whose lower case depends on where it stands
LowerSpecial ==
    { <<"U+00C0", <<"U+00E0">>>>, <<"U+00C1", <<"U+00E1">>>>,
      <<"U+00C2", <<"U+00E2">>>>, <<"U+00C3", <<"U+00E3">>>>,
      <<"U+00C4", <<"U+00E4">>>>, <<"U+00C5", <<"U+00E5">>>>,
      <<"U+00C6", <<"U+00E6">>>>, <<"U+00C7", <<"U+00E7">>>>,
      <<"U+00C8", <<"U+00E8">>>>, <<"U+00C9", <<"U+00E9">>>>,
      <<"U+00CA", <<"U+00EA">>>>, <<"U+00CB", <<"U+00EB">>>>,
      <<"U+00CC", <<"U+00EC">>>>, <<"U+00CD", <<"U+00ED">>>>,
      <<"U+00CE", <<"U+00EE">>>>, <<"U+00CF", <<"U+00EF">>>>,
      <<"U+00D0", <<"U+00F0">>>>, <<"U+00D1", <<"U+00F1">>>>,
      <<"U+00D2", <<"U+00F2">>>>, <<"U+00D3", <<"U+00F3">>>>,
      <<"U+00D4", <<"U+00F4">>>>, <<"U+00D5", <<"U+00F5">>>>,
      <<"U+00D6", <<"U+00F6">>>>, <<"U+00D8", <<"U+00F8">>>>,
      <<"U+00D9", <<"U+00F9">>>>, <<"U+00DA", <<"U+00FA">>>>,
      <<"U+00DB", <<"U+00FB">>>>, <<"U+00DC", <<"U+00FC">>>>,
      <<"U+00DD", <<"U+00FD">>>>, <<"U+00DE", <<"U+00FE">>>>,
      <<"U+0100", <<"U+0101">>>>, <<"U+0130", <<"i", "U+0307">>>>,
      <<"U+0391", <<"U+03B1">>>>, <<"U+03A9", <<"U+03C9">>>>,
      <<"U+0410", <<"U+0430">>>>, <<"U+2126", <<"U+03C9">>>>,
      <<"U+212A", <<"k">>>>, <<"U+212B", <<"U+00E5">>>> }

\* the characters str.lower() leaves as they are, whitespace apart
Uncased ==
    { "!", "U+0022", "#", "$", "%", "&", "'", "(", ")", "*", "+", ",", "-", ".",
      "/", "0", "1", "2", "3", "4", "5", "6", "7", "8", "9", ":", ";", "<",
      "=", ">", "?", "@", "[", "U+005C", "]", "^", "_", "U+0060", "a", "b", "c", "d",
      "e", "f", "g", "h", "i", "j", "k", "l", "m", "n", "o", "p", "q", "r",
      "s", "t", "u", "v", "w", "x", "y", "z", "{", "|", "}", "~", "U+00A1",
      "U+00A2", "U+00A3", "U+00A4", "U+00A5", "U+00A6", "U+00A7", "U+00A8",
      "U+00A9", "U+00AA", "U+00AB", "U+00AC", "U+00AD", "U+00AE", "U+00AF",
      "U+00B0", "U+00B1", "U+00B2", "U+00B3", "U+00B4", "U+00B5", "U+00B6",
      "U+00B7", "U+00B8", "U+00B9", "U+00BA", "U+00BB", "U+00BC", "U+00BD",
      "U+00BE", "U+00BF", "U+00D7", "U+00DF", "U+00E0", "U+00E1", "U+00E2",
      "U+00E3", "U+00E4", "U+00E5", "U+00E6", "U+00E7", "U+00E8", "U+00E9",
      "U+00EA", "U+00EB", "U+00EC", "U+00ED", "U+00EE", "U+00EF", "U+00F0",
      "U+00F1", "U+00F2", "U+00F3", "U+00F4", "U+00F5", "U+00F6", "U+00F7",
      "U+00F8", "U+00F9", "U+00FA", "U+00FB", "U+00FC", "U+00FD", "U+00FE",
      "U+00FF", "U+0101", "U+0131", "U+0307", "U+03B1", "U+03C2", "U+03C3",
      "U+03C9", "U+0430" }

Alphabet ==
    {UpperCase[k] : k \in 1..Len(UpperCase)} \cup {row[1] : row \in LowerSpecial}
        \cup {"U+03A3"} \cup Uncased \cup Whitespace

\* the characters with a case, and those a word's case looks through
\* (Unicode Cased and Case_Ignorable), among those of the model
Cased ==
    {UpperCase[k] : k \in 1..Len(UpperCase)} \cup {LowerCase[k] : k \in 1..Len(LowerCase)}
        \cup
    { "U+00AA", "U+00B5", "U+00BA", "U+00C0", "U+00C1", "U+00C2", "U+00C3",
      "U+00C4", "U+00C5", "U+00C6", "U+00C7", "U+00C8", "U+00C9", "U+00CA",
      "U+00CB", "U+00CC", "U+00CD", "U+00CE", "U+00CF", "U+00D0", "U+00D1",
      "U+00D2", "U+00D3", "U+00D4", "U+00D5", "U+00D6", "U+00D8", "U+00D9",
      "U+00DA", "U+00DB", "U+00DC", "U+00DD", "U+00DE", "U+00DF", "U+00E0",
      "U+00E1", "U+00E2", "U+00E3", "U+00E4", "U+00E5", "U+00E6", "U+00E7",
      "U+00E8", "U+00E9", "U+00EA", "U+00EB", "U+00EC", "U+00ED", "U+00EE",
      "U+00EF", "U+00F0", "U+00F1", "U+00F2", "U+00F3", "U+00F4", "U+00F5",
      "U+00F6", "U+00F8", "U+00F9", "U+00FA", "U+00FB", "U+00FC", "U+00FD",
      "U+00FE", "U+00FF", "U+0100", "U+0101", "U+0130", "U+0131", "U+0391",
      "U+03A3", "U+03A9", "U+03B1", "U+03C2", "U+03C3", "U+03C9", "U+0410",
      "U+0430", "U+2126", "U+212A", "U+212B" }

CaseIgnorable ==
    { "'", ".", ":", "^", "U+0060", "U+00A8", "U+00AD", "U+00AF", "U+00B4",
      "U+00B7", "U+00B8", "U+0307" }

\* str.lower() of one character other than the capital sigma: one character,
\* or two
LowerOf ==
    [c \in Alphabet \ {"U+03A3"} |->
        IF \E k \in 1..Len(UpperCase) : UpperCase[k] = c
        THEN <<LowerCase[CHOOSE k \in 1..Len(UpperCase) : UpperCase[k] = c]>>
        ELSE IF \E row \in LowerSpecial : row[1] = c
        THEN (CHOOSE row \in LowerSpecial : row[1] = c)[2]
        ELSE <<c>>]

LowerChar(c) == LowerOf[c]

\* the capital sigma at position i: the final sigma when it ends a word (a
\* cased character before it, case-ignorable ones skipped, and none after
\* it), the small sigma otherwise
handle_capital_sigma(chars, i) ==
    LET left == {j \in 1..(i - 1) : chars[j] \notin CaseIgnorable}
        right == {j \in (i + 1)..Len(chars) : chars[j] \notin CaseIgnorable}
        last == CHOOSE j \in left : \A q \in left : q <= j
        next == CHOOSE j \in right : \A q \in right : j <= q
    IN  IF /\ left # {}
           /\ chars[last] \in Cased
           /\ (right = {} \/ chars[next] \notin Cased)
        THEN "U+03C2"
        ELSE "U+03C3"

RECURSIVE LowerFrom(_, _)
LowerFrom(chars, i) ==
    IF i > Len(chars) THEN <<>>
    ELSE (IF chars[i] = "U+03A3" THEN <<handle_capital_sigma(chars, i)>>
          ELSE LowerChar(chars[i]))
         \o LowerFrom(chars, i + 1)

\* str.lower()
Lower(chars) == LowerFrom(chars, 1)

\* word in text: word occurs in text as a substring
In(word, text) ==
    \E i \in 1..(Len(text) - Len(word) + 1) : SubSeq(text, i, i + Len(word) - 1) = word

\* any(word in message_lower for word in words)
AnyIn(words, message_lower) == \E word \in words : In(word, message_lower)

GreetingWords ==
    { <<"h", "e", "l", "l", "o">>, <<"h", "i">>, <<"h", "e", "y">>,
      <<"g", "r", "e", "e", "t", "i", "n", "g", "s">> }
FarewellWords ==
    { <<"b", "y", "e">>, <<"g", "o", "o", "d", "b", "y", "e">>,
      <<"f", "a", "r", "e", "w", "e", "l", "l">>, <<"s", "e", "e", " ", "y", "o", "u">> }
ProblemWords ==
    { <<"p", "r", "o", "b", "l", "e", "m">>, <<"i", "s", "s", "u", "e">>, <<"b", "u", "g">>,
      <<"e", "r", "r", "o", "r">>, <<"b", "r", "o", "k", "e", "n">> }
PriceWords ==
    { <<"p", "r", "i", "c", "e">>, <<"c", "o", "s", "t">>,
      <<"e", "x", "p", "e", "n", "s", "i", "v", "e">>, <<"c", "h", "e", "a", "p">> }
ThankWords ==
    { <<"t", "h", "a", "n", "k">>, <<"t", "h", "a", "n", "k", "s">>,
      <<"a", "p", "p", "r", "e", "c", "i", "a", "t", "e">> }

\* the set of replies _generate_response can return
_generate_response(message, sentiment_label) ==
    LET message_lower == Lower(message.val)
    IN  IF AnyIn(GreetingWords, message_lower) /\ Falsy(user_name)
        THEN Choice(Responses("greeting"))
        ELSE IF AnyIn(FarewellWords, message_lower)
        THEN Choice(Responses("farewell"))
        ELSE IF AnyIn(ProblemWords, message_lower)
        THEN {Reply("I'm sorry you're experiencing technical difficulties. Can you provide more details so I can help resolve this?")}
        ELSE IF AnyIn(PriceWords, message_lower)
        THEN IF sentiment_label = "Negative"
             THEN {Reply("I understand pricing is a concern. Let me see what options might work better for your budget.")}
             ELSE {Reply("I'm happy to discuss pricing options that fit your needs.")}
        ELSE IF AnyIn(ThankWords, message_lower)
        THEN {Reply("You're very welcome! Is there anything else I can help you with?")}
        ELSE Choice(Responses(IF sentiment_label \in ResponseKeys
                              THEN sentiment_label ELSE "Neutral"))

\* mutant: the reply is stored before the message
Appended_ReplyFirst(history, user_message, bot_response) ==
    history \o << <<"bot", bot_response>>, <<"user", user_message>> >>

\* the two appends of process_message
Appended(history, user_message, bot_response) ==
    history \o << <<"user", user_message>>, <<"bot", bot_response>> >>

\* what the session is given: texts, and None
SessionInputs == {T_hello, T_awful, T_good, T_bad, T_empty, T_badprice, None}

\* texts with capitals outside A-Z: "THAN" and the kelvin sign, "H" and the
\* dotted capital I
T_thank_kelvin == Str(<<"T", "H", "A", "N", "U+212A">>)
T_hi_dotted == Str(<<"H", "U+0130">>)

\* the texts _generate_response is called with directly
ResponseTexts ==
    {T_hello, T_awful, T_good, T_bad, T_empty, T_bye, T_bug, T_expensive, T_badprice, T_thanks}

\* the labels _generate_response is called with directly: the labels of the
\* analyzer, the other keys of self.responses, and a str that is no key
ResponseLabels == ResponseKeys \cup {"Mixed"}

\* mutant: the user turn is stored before the message is scored
process_message_outcomes_store_first(history, user_message) ==
    LET sentiment == analyze_message(user_message)
    IN  IF ~sentiment.ok
        THEN {[ret |-> sentiment, history |-> Append(history, <<"user", user_message>>)]}
        ELSE {[ret |-> Return(<<bot_response, sentiment.value>>),
               history |-> Appended(history, user_message, bot_response)] :
                 bot_response \in _generate_response(user_message, sentiment.value.label)}

\* what process_message can return or raise on a history, and the history it
\* leaves: the message is scored first (line 69), nothing is stored if that
\* raises
process_message_outcomes(history, user_message) ==
    LET sentiment == analyze_message(user_message)
    IN  IF ~sentiment.ok
        THEN {[ret |-> sentiment, history |-> history]}
        ELSE {[ret |-> Return(<<bot_response, sentiment.value>>),
               history |-> Appended(history, user_message, bot_response)] :
                 bot_response \in _generate_response(user_message, sentiment.value.label)}

process_message(user_message) ==
    /\ pc = "idle"
    /\ analyze_message(user_message).ok => Len(conversation_history) < 2 * MaxMessages
    /\ \E outcome \in process_message_outcomes(conversation_history, user_message) :
          /\ ret' = outcome.ret
          /\ conversation_history' = outcome.history
    /\ op' = "process_message"
    /\ before' = conversation_history
    /\ arg' = user_message
    /\ calls' = <<user_message>>
    /\ UNCHANGED <<user_name, fp, pc, show_tier2, stdout>>

get_conversation_history ==
    /\ pc = "idle"
    /\ ret' = Return(conversation_history)
    /\ op' = "get_conversation_history"
    /\ before' = conversation_history
    /\ arg' = None
    /\ calls' = <<>>
    /\ UNCHANGED <<conversation_history, user_name, fp, pc, show_tier2, stdout>>

\* mutant: the report is that of the history as it was at the call before
get_conversation_analysis_stale ==
    /\ pc = "idle"
    /\ ret' = analyze_conversation(before)
    /\ op' = "get_conversation_analysis"
    /\ before' = conversation_history
    /\ arg' = None
    /\ calls' = AnalyzeConversationCalls(before)
    /\ UNCHANGED <<conversation_history, user_name, fp, pc, show_tier2, stdout>>

get_conversation_analysis ==
    /\ pc = "idle"
    /\ ret' = analyze_conversation(conversation_history)
    /\ op' = "get_conversation_analysis"
    /\ before' = conversation_history
    /\ arg' = None
    /\ calls' = AnalyzeConversationCalls(conversation_history)
    /\ UNCHANGED <<conversation_history, user_name, fp, pc, show_tier2, stdout>>

\* mutant: only the last exchange is dropped
reset_conversation_last_only ==
    /\ pc = "idle"
    /\ conversation_history' =
           SubSeq(conversation_history, 1, Len(conversation_history) - 2)
    /\ user_name' = None
    /\ ret' = Return(None)
    /\ op' = "reset_conversation"
    /\ before' = conversation_history
    /\ arg' = None
    /\ calls' = <<>>
    /\ UNCHANGED <<fp, pc, show_tier2, stdout>>

reset_conversation ==
    /\ pc = "idle"
    /\ conversation_history' = <<>>
    /\ user_name' = None
    /\ ret' = Return(None)
    /\ op' = "reset_conversation"
    /\ before' = conversation_history
    /\ arg' = None
    /\ calls' = <<>>
    /\ UNCHANGED <<fp, pc, show_tier2, stdout>>

FpChoices == [avg : {-1, 0, 1}, diff : {-1, 0, 1}]

\* SentimentChatbot.__init__
Init ==
    /\ conversation_history = <<>>
    /\ user_name = None
    /\ fp \in FpChoices
    /\ pc = "idle"
    /\ op = "__init__"
    /\ before = <<>>
    /\ arg = None
    /\ ret = Return(None)
    /\ calls = <<>>
    /\ show_tier2 = TRUE
    /\ stdout = <<>>

Next ==
    \/ \E user_message \in SessionInputs : process_message(user_message)
    \/ get_conversation_history
    \/ get_conversation_analysis
    \/ reset_conversation

Spec == Init /\ [][Next]_vars

(***************************************************************************)
(* Single methods called directly, as the tests do, on inputs drawn from   *)
(* bounded sets: one call, from a new analyzer or chatbot.                 *)
(***************************************************************************)
ProbeTexts == {M1, M2, M3, M4, M5, M6, M7, M8}

TestTexts ==
    {T_love_service, T_terrible, T_product, T_wonderful, T_love_perfect, T_hate_broken}

AnalyzerTurns == {<<"user", text>> : text \in ProbeTexts \cup {None}} \cup {<<"bot", T_good>>}

TurnSeqs == UNION {[1..n -> AnalyzerTurns] : n \in 0..MaxTurns}

InitCalls ==
    /\ conversation_history = <<>>
    /\ user_name = None
    /\ fp \in FpChoices
    /\ pc = "call"
    /\ before = <<>>
    /\ \/ op = "analyze_conversation" /\ arg \in TurnSeqs
       \/ op = "analyze_message"
              /\ arg \in ProbeTexts \cup ResponseTexts \cup TestTexts \cup {M9, M10, None}
       \/ op = "_get_sentiment_label" /\ arg \in {Exact(c) : c \in (-ScoreMax)..ScoreMax}
       \/ op = "_generate_response"
              /\ arg \in (ResponseTexts \cup {T_thank_kelvin, T_hi_dotted}) \X ResponseLabels
    /\ ret = Return(None)
    /\ calls = <<>>
    /\ show_tier2 = TRUE
    /\ stdout = <<>>

CallAnalyzeConversation ==
    /\ pc = "call" /\ op = "analyze_conversation"
    /\ ret' = analyze_conversation(arg)
    /\ calls' = AnalyzeConversationCalls(arg)
    /\ pc' = "idle"
    /\ UNCHANGED <<conversation_history, user_name, fp, op, before, arg, show_tier2, stdout>>

CallAnalyzeMessage ==
    /\ pc = "call" /\ op = "analyze_message"
    /\ ret' = analyze_message(arg)
    /\ calls' = <<arg>>
    /\ pc' = "idle"
    /\ UNCHANGED <<conversation_history, user_name, fp, op, before, arg, show_tier2, stdout>>

CallGetSentimentLabel ==
    /\ pc = "call" /\ op = "_get_sentiment_label"
    /\ ret' = Return(_get_sentiment_label(arg))
    /\ calls' = <<>>
    /\ pc' = "idle"
    /\ UNCHANGED <<conversation_history, user_name, fp, op, before, arg, show_tier2, stdout>>

CallGenerateResponse ==
    /\ pc = "call" /\ op = "_generate_response"
    /\ \E bot_response \in _generate_response(arg[1], arg[2]) : ret' = Return(bot_response)
    /\ calls' = <<>>
    /\ pc' = "idle"
    /\ UNCHANGED <<conversation_history, user_name, fp, op, before, arg, show_tier2, stdout>>

NextCalls ==
    \/ CallAnalyzeConversation
    \/ CallAnalyzeMessage
    \/ CallGetSentimentLabel
    \/ CallGenerateResponse

SpecCalls == InitCalls /\ [][NextCalls]_vars

(***************************************************************************)
(* ChatbotCLI (src/main.py): the loop of run, one step per iteration, and  *)
(* the final analysis.  stdout holds what the step printed, one tuple per  *)
(* line of interest, colours and rules left out.  Ctrl-C (KeyboardInterrupt)*)
(* can cut a step short after any of its effects; pc is "escaped" when it  *)
(* has left run(), and "idle" while run is not yet called.                 *)
(***************************************************************************)
\* input() raising instead of returning a line
EOFError == [type |-> "EOFError", val |-> <<>>]
KeyboardInterrupt == [type |-> "KeyboardInterrupt", val |-> <<>>]

\* str.strip(): leading and trailing whitespace removed
RECURSIVE LStrip(_)
LStrip(chars) ==
    IF chars # <<>> /\ chars[1] \in Whitespace THEN LStrip(Tail(chars)) ELSE chars

RECURSIVE RStrip(_)
RStrip(chars) ==
    IF chars # <<>> /\ chars[Len(chars)] \in Whitespace
    THEN RStrip(SubSeq(chars, 1, Len(chars) - 1))
    ELSE chars

Strip(chars) == RStrip(LStrip(chars))

ExitCommands ==
    { <<"q", "u", "i", "t">>, <<"e", "x", "i", "t">>, <<"b", "y", "e">>,
      <<"g", "o", "o", "d", "b", "y", "e">> }

ToggleCommand == <<"t", "o", "g", "g", "l", "e">>

\* f"{x:.1f}" of the double count / message_count * 100, in tenths of a
\* percent: the nearest tenth; on a decimal tie (23/80 is 28.75) the double
\* lies on the tie or beside it, and either neighbour can be printed
Percentage(count, message_count) ==
    IF message_count > 0
    THEN LET tenths == (count * 1000) \div message_count
             twice == 2 * ((count * 1000) - tenths * message_count)
         IN  IF twice < message_count THEN {tenths}
             ELSE IF twice > message_count THEN {tenths + 1}
             ELSE {tenths, tenths + 1}
    ELSE {0}

\* display_sentiment: label and f"{compound:.3f}"
display_sentiment(sentiment) ==
    <<"Sentiment", sentiment.label, Format3(sentiment.compound)>>

\* mutant: user_msg_index counts from 1
Breakdown_index_from_one(analysis, history) ==
    LET at == {i \in 1..Len(history) : history[i][1] = "user"}
        n == Cardinality(at)
        turn(k) == CHOOSE i \in at : Cardinality({p \in at : p <= i}) = k
    IN  IF n = 0 THEN [ret |-> Return(None), printed |-> <<>>]
        ELSE IF "individual_scores" \notin DOMAIN analysis
        THEN [ret |-> Raise("KeyError", "cli"), printed |-> <<>>]
        ELSE LET m == Len(analysis.individual_scores) - 1
                 done == IF n <= m THEN n ELSE m
             IN  [ret |-> IF n > m THEN Raise("IndexError", "cli") ELSE Return(None),
                  printed |->
                      [j \in 1..(2 * done) |->
                         IF j % 2 = 1
                         THEN <<"User", history[turn((j + 1) \div 2)][2]>>
                         ELSE display_sentiment(analysis.individual_scores[(j \div 2) + 1])]]

\* the message-by-message breakdown, lines 91-108: the user turn printed as
\* number user_msg_index + 1 takes individual_scores[user_msg_index]; what is
\* printed, and how the loop ends: an error if individual_scores is missing
\* or too short, after the lines of the user turns before
Breakdown(analysis, history) ==
    LET at == {i \in 1..Len(history) : history[i][1] = "user"}
        n == Cardinality(at)
        turn(k) == CHOOSE i \in at : Cardinality({p \in at : p <= i}) = k
    IN  IF n = 0 THEN [ret |-> Return(None), printed |-> <<>>]
        ELSE IF "individual_scores" \notin DOMAIN analysis
        THEN [ret |-> Raise("KeyError", "cli"), printed |-> <<>>]
        ELSE LET m == Len(analysis.individual_scores)
                 done == IF n <= m THEN n ELSE m
             IN  [ret |-> IF n > m THEN Raise("IndexError", "cli") ELSE Return(None),
                  printed |->
                      [j \in 1..(2 * done) |->
                         IF j % 2 = 1
                         THEN <<"User", history[turn((j + 1) \div 2)][2]>>
                         ELSE display_sentiment(analysis.individual_scores[j \div 2])]]

\* the lines of the sentiment distribution, lines 69-80, for each way the
\* percentages can be printed
Distribution(analysis) ==
    LET dist == analysis.sentiment_distribution
        pct(type) == Percentage(dist[type], analysis.message_count)
        line(type, p) == <<"Distribution", type, dist[type], p>>
    IN  IF DOMAIN dist = {} THEN {<<>>}
        ELSE { <<line("Positive", p[1]), line("Neutral", p[2]), line("Negative", p[3])>> :
                   p \in pct("Positive") \X pct("Neutral") \X pct("Negative") }

\* what display_conversation_analysis prints for a report, lines 51-110, and
\* how it ends: an error of a missing key or index comes after the lines
\* printed before it
DisplayedAnalysis(analysis, history) ==
    LET head == << <<"Overall", analysis.overall_sentiment>>,
                   <<"Compound", analysis.compound_score>>,
                   <<"Total", analysis.message_count>> >>
    IN  IF "mood_shift" \notin DOMAIN analysis
        THEN { [ret |-> Raise("KeyError", "cli"), printed |-> head \o lines] :
                   lines \in Distribution(analysis) }
        ELSE { [ret |-> breakdown.ret,
                printed |-> head \o lines \o << <<"Mood", analysis.mood_shift>> >>
                                \o breakdown.printed] :
                   lines \in Distribution(analysis),
                   breakdown \in {Breakdown(analysis, history)} }

\* display_conversation_analysis on a history: what it can print, and how it
\* ends; nothing is printed if the analysis of line 49 raises
display_conversation_analysis(history) ==
    UNION { IF ~report.ok THEN {[ret |-> report, printed |-> <<>>]}
            ELSE DisplayedAnalysis(report.value, history) :
                report \in {analyze_conversation(history)} }

\* what is typed at the prompt: lines as input() returns them
L_blank == Str(<<" ", "\t">>)
L_quit == Str(<<"\t", "q", "u", "i", "t">>)
L_bye == Str(<<"B", "y", "e">>)
L_toggle == Str(<<"U+00A0", "t", "o", "g", "g", "l", "e">>)
L_good == Str(<<" ", "g", "o", "o", "d", " ">>)
CliLines == {L_blank, L_quit, L_bye, L_toggle, L_good, T_badprice, M9, M10, T_fault}

\* What an iteration does that can be seen, in the order of the code: a call
\* of the engine, an append to the history, the flip of show_tier2, a printed
\* line.
Called(text) == <<"call", text>>
Stored(turn) == <<"append", turn>>
Flipped == <<"flip", None>>
Printed(line) == <<"print", line>>

\* of a sequence of such effects, those of one kind
Of(effects, kind) ==
    LET Is(e) == e[1] = kind
    IN  [i \in 1..Len(SelectSeq(effects, Is)) |-> SelectSeq(effects, Is)[i][2]]

\* the most an iteration does: the call, two appends, two lines
MaxEffects == 5

\* Ctrl-C in the try block, lines 118-144, after input() has returned: not at
\* all, or after so many of the effects of the iteration (0: before any)
NoSigint == -1
SigintPoints == {NoSigint} \cup 0..MaxEffects

\* Ctrl-C in an except clause, lines 147-148 and 150-151: not at all, before
\* the clause has printed its line, or after
HandlerSigint == {"none", "before", "after"}

\* what input() gave is a line that goes to process_message
Messaged(typed) ==
    /\ typed \notin {KeyboardInterrupt, EOFError}
    /\ Strip(typed.val) # <<>>
    /\ Lower(Strip(typed.val)) \notin ExitCommands \cup {ToggleCommand}

\* the try block of an iteration on what input() gave, uninterrupted: what it
\* does, what it comes to (the result of process_message, or what is raised),
\* and how it ends
run_try(typed, history, tier2) ==
    IF typed = KeyboardInterrupt
    THEN {[effects |-> <<>>, ret |-> Raise("KeyboardInterrupt", "input"),
           end |-> "KeyboardInterrupt"]}
    ELSE IF typed = EOFError
    THEN {[effects |-> <<>>, ret |-> Raise("EOFError", "input"), end |-> "Exception"]}
    ELSE LET user_input == Str(Strip(typed.val))
         IN  IF user_input.val = <<>>
             THEN {[effects |-> <<>>, ret |-> Return(None), end |-> "continue"]}
             ELSE IF Lower(user_input.val) \in ExitCommands
             THEN {[effects |-> <<Printed(<<"Ending conversation...">>)>>,
                    ret |-> Return(None), end |-> "break"]}
             ELSE IF Lower(user_input.val) = ToggleCommand
             THEN {[effects |-> <<Flipped, Printed(<<"Statement-level sentiment display",
                                                    IF tier2 THEN "disabled" ELSE "enabled">>)>>,
                    ret |-> Return(None), end |-> "continue"]}
             ELSE { [effects |->
                        <<Called(user_input)>>
                        \o [k \in 1..(Len(outcome.history) - Len(history)) |->
                               Stored(outcome.history[Len(history) + k])]
                        \o (IF ~outcome.ret.ok THEN <<>>
                            ELSE (IF tier2
                                  THEN <<Printed(display_sentiment(outcome.ret.value[2]))>>
                                  ELSE <<>>)
                                 \o <<Printed(<<"Bot", outcome.ret.value[1]>>)>>),
                     ret |-> outcome.ret,
                     end |-> IF outcome.ret.ok THEN "continue" ELSE "Exception"] :
                       outcome \in process_message_outcomes(history, user_input) }

\* an except clause of lines 146-151, after what the iteration has printed:
\* it prints its line and the loop goes on or ends; a Ctrl-C inside the clause
\* leaves run() with KeyboardInterrupt, without the final analysis
Handled(printed, line, next, raised, handler) ==
    /\ stdout' = printed \o (IF handler = "before" THEN <<>> ELSE <<line>>)
    /\ pc' = IF handler = "none" THEN next ELSE "escaped"
    /\ ret' = IF handler = "none" THEN raised ELSE Raise("KeyboardInterrupt", "signal")

\* except KeyboardInterrupt, lines 146-148
Interrupted(printed, raised, handler) ==
    Handled(printed, <<"Conversation interrupted...">>, "final", raised, handler)

\* except Exception, lines 149-151
Failed(printed, raised, handler) ==
    Handled(printed, <<"Error", raised.error>>, "input", raised, handler)

\* one iteration of the loop of run, lines 117-151
run_iteration(typed) ==
    /\ pc = "input"
    /\ op' = "run_iteration"
    /\ arg' = typed
    /\ before' = conversation_history
    /\ UNCHANGED <<user_name, fp>>
    /\ (Messaged(typed) /\ analyze_message(Str(Strip(typed.val))).ok) =>
           Len(conversation_history) < 2 * MaxMessages
    /\ \E try \in run_try(typed, conversation_history, show_tier2) :
       \E sigint \in SigintPoints, handler \in HandlerSigint :
          /\ sigint # NoSigint => (try.end # "KeyboardInterrupt" /\ sigint <= Len(try.effects))
          /\ \E done \in {IF sigint = NoSigint THEN try.effects
                          ELSE SubSeq(try.effects, 1, sigint)} :
                /\ conversation_history' = conversation_history \o Of(done, "append")
                /\ calls' = Of(done, "call")
                /\ show_tier2' = IF Of(done, "flip") # <<>> THEN ~show_tier2 ELSE show_tier2
                /\ IF sigint # NoSigint
                   THEN Interrupted(Of(done, "print"),
                                    Raise("KeyboardInterrupt", "signal"), handler)
                   ELSE IF try.end = "KeyboardInterrupt"
                   THEN Interrupted(Of(done, "print"), try.ret, handler)
                   ELSE IF try.end = "Exception"
                   THEN Failed(Of(done, "print"), try.ret, handler)
                   ELSE /\ handler = "none"
                        /\ ret' = try.ret
                        /\ stdout' = Of(done, "print")
                        /\ pc' = IF try.end = "break" THEN "final" ELSE "input"

\* the end of run, lines 153-157, uninterrupted: the final analysis if there
\* were messages; what it does and what it comes to
run_end(history) ==
    IF Len(history) > 0
    THEN { [effects |->
               [k \in 1..Len(AnalyzeConversationCalls(history)) |->
                         Called(AnalyzeConversationCalls(history)[k])]
               \o [k \in 1..Len(shown.printed) |-> Printed(shown.printed[k])],
            ret |-> shown.ret] :
              shown \in display_conversation_analysis(history) }
    ELSE {[effects |-> <<Printed(<<"No conversation to analyze.">>)>>, ret |-> Return(None)]}

\* the end of run; a Ctrl-C in it leaves run() with KeyboardInterrupt, after
\* so many of its effects
run_final ==
    /\ pc = "final"
    /\ op' = "run_final"
    /\ arg' = None
    /\ before' = conversation_history
    /\ \E end \in run_end(conversation_history) :
          \E sigint \in {NoSigint} \cup 0..Len(end.effects) :
             \E done \in {IF sigint = NoSigint THEN end.effects
                          ELSE SubSeq(end.effects, 1, sigint)} :
                /\ calls' = Of(done, "call")
                /\ stdout' = Of(done, "print")
                /\ ret' = IF sigint = NoSigint THEN end.ret
                          ELSE Raise("KeyboardInterrupt", "signal")
                /\ pc' = IF sigint = NoSigint THEN "done" ELSE "escaped"
    /\ UNCHANGED <<conversation_history, user_name, fp, show_tier2>>

\* display_welcome, lines 21-30: the lines it prints
display_welcome ==
    << <<"SENTIMENT ANALYSIS CHATBOT">>,
       <<"Tier 1: Conversation-level sentiment analysis">>,
       <<"Tier 2: Statement-level sentiment analysis">>,
       <<"Type 'quit' or 'exit' to end conversation and see analysis">>,
       <<"Type 'toggle' to enable/disable statement-level sentiment display">> >>

\* the start of run, lines 112-114, before the try of the loop: the welcome;
\* a Ctrl-C in it leaves run() with KeyboardInterrupt, after so many of its
\* lines, with no prompt and no final analysis
run_welcome ==
    /\ pc = "idle"
    /\ op' = "display_welcome"
    /\ arg' = None
    /\ before' = conversation_history
    /\ calls' = <<>>
    /\ \E sigint \in {NoSigint} \cup 0..Len(display_welcome) :
          /\ stdout' = IF sigint = NoSigint THEN display_welcome
                       ELSE SubSeq(display_welcome, 1, sigint)
          /\ ret' = IF sigint = NoSigint THEN Return(None)
                    ELSE Raise("KeyboardInterrupt", "signal")
          /\ pc' = IF sigint = NoSigint THEN "input" ELSE "escaped"
    /\ UNCHANGED <<conversation_history, user_name, fp, show_tier2>>

\* ChatbotCLI.__init__, lines 17-19: run is not yet called
InitCLI ==
    /\ conversation_history = <<>>
    /\ user_name = None
    /\ fp \in FpChoices
    /\ pc = "idle"
    /\ op = "__init__"
    /\ before = <<>>
    /\ arg = None
    /\ ret = Return(None)
    /\ calls = <<>>
    /\ show_tier2 = TRUE
    /\ stdout = <<>>

\* main, lines 160-163: the object is made and run is called
NextCLI ==
    \/ run_welcome
    \/ \E typed \in CliLines \cup {EOFError, KeyboardInterrupt} : run_iteration(typed)
    \/ run_final

SpecCLI == InitCLI /\ [][NextCLI]_vars

\* what the chatbot of the ChatbotCLI object is given through its own
\* methods before run is called
SessionBefore == {T_thanks, None}

\* The ChatbotCLI object with its chatbot used through process_message and
\* reset_conversation before run is called on it: the history run starts
\* from is any these two can leave.
NextSessionCLI ==
    \/ \E user_message \in SessionBefore : process_message(user_message)
    \/ reset_conversation
    \/ NextCLI

SpecSessionCLI == InitCLI /\ [][NextSessionCLI]_vars

(***************************************************************************)
(* Properties.  What a property expects is computed here from the inputs,  *)
(* with the numbers of the specification, not with the operators above.    *)
(***************************************************************************)
Returned(name) == pc = "idle" /\ op = name /\ ret.ok

\* the texts of the user turns of a turn sequence, in order
RECURSIVE UserTextsOf(_)
UserTextsOf(turns) ==
    IF turns = <<>> THEN <<>>
    ELSE IF turns[1][1] = "user" THEN <<turns[1][2]>> \o UserTextsOf(Tail(turns))
    ELSE UserTextsOf(Tail(turns))

\* the compound score the engine gives a text
CompoundOf(text) == polarity_scores(text).value.compound

RECURSIVE SumOf(_)
SumOf(cs) == IF cs = <<>> THEN 0 ELSE cs[1] + SumOf(Tail(cs))

\* the label of a four-decimal score c under the thresholds 0.05 and -0.05
ExpectedLabel(c) ==
    IF c >= 500 THEN "Positive" ELSE IF c <= -500 THEN "Negative" ELSE "Neutral"

\* the compound scores of a returned report, in order
ReportScores ==
    [i \in 1..Len(ret.value.individual_scores) |-> ret.value.individual_scores[i].compound]

AnalyzedSome == Returned("analyze_conversation") /\ UserTextsOf(arg) # <<>>

\* C1: the label of a compound score c is Positive iff c >= 0.05, Negative iff
\* c <= -0.05 and Neutral otherwise, for _get_sentiment_label on every c in
\* [-1, 1] and for the label analyze_message attaches to the engine's score;
\* both boundaries are inclusive and the label is one of the three.
C1_LabelThresholds ==
    /\ Returned("_get_sentiment_label") =>
          /\ ret.value \in {"Positive", "Neutral", "Negative"}
          /\ (ret.value = "Positive") <=> (arg.num >= 500)
          /\ (ret.value = "Negative") <=> (arg.num <= -500)
          /\ (ret.value = "Neutral") <=> (arg.num > -500 /\ arg.num < 500)
    /\ Returned("analyze_message") =>
          /\ ret.value.compound = CompoundOf(arg)
          /\ ret.value.label \in {"Positive", "Neutral", "Negative"}
          /\ (ret.value.label = "Positive") <=> (ret.value.compound >= 500)
          /\ (ret.value.label = "Negative") <=> (ret.value.compound <= -500)
          /\ (ret.value.label = "Neutral") <=>
                 (ret.value.compound > -500 /\ ret.value.compound < 500)

\* the score 0.05 itself has been labelled, Positive
C1_Witness ==
    /\ Returned("_get_sentiment_label")
    /\ arg.num = 500
    /\ ret.value = "Positive"

\* C2: analyze_conversation on a turn sequence without a user turn (empty, or
\* bot turns only) returns the report Neutral, 0.0, 0, {} with no mood_shift
\* and no individual_scores field, and hands nothing to the engine.
C2_NoUserTurns ==
    (pc = "idle" /\ op = "analyze_conversation" /\ UserTextsOf(arg) = <<>>) =>
        /\ ret.ok
        /\ DOMAIN ret.value =
               {"overall_sentiment", "compound_score", "message_count", "sentiment_distribution"}
        /\ ret.value.overall_sentiment = "Neutral"
        /\ ret.value.compound_score = 0
        /\ ret.value.message_count = 0
        /\ DOMAIN ret.value.sentiment_distribution = {}
        /\ calls = <<>>

\* several bot turns and no user turn have been analysed
C2_Witness ==
    /\ Returned("analyze_conversation")
    /\ Len(arg) >= 2
    /\ \A i \in 1..Len(arg) : arg[i][1] = "bot"
    /\ ret.value.message_count = 0

\* C3: with n user messages of scores c[1..n]: mood_shift is Insufficient data
\* when n < 2; otherwise, with mid = n \div 2 (both halves non-empty),
\* diff = mean(c[mid+1..n]) - mean(c[1..mid]) as the doubles give it, mood_shift
\* is Improving iff diff > 0.2, Declining iff diff < -0.2, Stable otherwise (so
\* Stable when diff is 0.2 or -0.2); no call ends in a division by zero.
\* Over the common denominator mid * (n - mid), diff is num and 0.2 is bar; when
\* the exact difference equals 0.2 the double lies on the side fp.diff.
C3_MoodShift ==
    /\ (pc = "idle" /\ op = "analyze_conversation" /\ ~ret.ok) =>
           ret.error # "ZeroDivisionError"
    /\ AnalyzedSome =>
          LET c == ReportScores
              n == Len(c)
              mid == n \div 2
              num == SumOf(SubSeq(c, mid + 1, n)) * mid - SumOf(SubSeq(c, 1, mid)) * (n - mid)
              bar == 2000 * mid * (n - mid)
              above == num > bar \/ (num = bar /\ fp.diff > 0)
              below == num < -bar \/ (num = -bar /\ fp.diff < 0)
          IN  IF n < 2 THEN ret.value.mood_shift = "Insufficient data"
              ELSE /\ mid >= 1 /\ n - mid >= 1
                   /\ (ret.value.mood_shift = "Improving (conversation became more positive)")
                          <=> above
                   /\ (ret.value.mood_shift = "Declining (conversation became more negative)")
                          <=> below
                   /\ (ret.value.mood_shift = "Stable (consistent mood throughout)")
                          <=> (~above /\ ~below)

\* three messages, halves of one and two, diff exactly 0.2: Stable
C3_Witness ==
    /\ AnalyzedSome
    /\ fp.diff = 0
    /\ ReportScores = <<0, 2000, 2000>>
    /\ ret.value.mood_shift = "Stable (consistent mood throughout)"

\* C4: with at least one user turn, sentiment_distribution has exactly the keys
\* Positive, Neutral and Negative, each value is the number of user messages
\* with that label, and the values sum to message_count.
C4_Distribution ==
    AnalyzedSome =>
        LET texts == UserTextsOf(arg)
            dist == ret.value.sentiment_distribution
        IN  /\ DOMAIN dist = {"Positive", "Neutral", "Negative"}
            /\ \A l \in DOMAIN dist :
                   dist[l] = Cardinality({i \in 1..Len(texts) :
                                             ExpectedLabel(CompoundOf(texts[i])) = l})
            /\ dist["Positive"] + dist["Neutral"] + dist["Negative"] = ret.value.message_count

\* a label no message received is present with count 0
C4_Witness ==
    /\ AnalyzedSome
    /\ ret.value.message_count = 3
    /\ ret.value.sentiment_distribution["Negative"] = 0
    /\ ret.value.sentiment_distribution["Positive"] = 2

\* C5: with at least one user turn, message_count is the number of user turns,
\* individual_scores has message_count entries, entry i is the score of the
\* i-th user turn, and the report is the one the user turns alone would get:
\* bot turns, wherever they stand, change nothing.
C5_UserTurnsInOrder ==
    AnalyzedSome =>
        LET texts == UserTextsOf(arg)
        IN  /\ ret.value.message_count = Len(texts)
            /\ Len(ret.value.individual_scores) = ret.value.message_count
            /\ \A i \in 1..Len(texts) :
                   ret.value.individual_scores[i] =
                       [compound |-> CompoundOf(texts[i]),
                        positive |-> polarity_scores(texts[i]).value.pos,
                        neutral |-> polarity_scores(texts[i]).value.neu,
                        negative |-> polarity_scores(texts[i]).value.neg,
                        label |-> ExpectedLabel(CompoundOf(texts[i]))]
            /\ ret = analyze_conversation([i \in 1..Len(texts) |-> <<"user", texts[i]>>])

\* user turns with different scores around a bot turn
C5_Witness ==
    /\ AnalyzedSome
    /\ Len(arg) = 3
    /\ arg[2][1] = "bot"
    /\ ReportScores = <<2000, -500>>

\* C6: with n >= 1 user messages of score sum s, overall_sentiment is the label
\* of the unrounded mean s / n and compound_score is that mean rounded to three
\* decimals (a nearest multiple of 0.001); the label does not come from the
\* rounded value: a mean strictly between 0.0495 and 0.05 is Neutral and shown
\* as 0.05, one between -0.05 and -0.0495 is Neutral and shown as -0.05; so is
\* a mean at the end 0.0495 of the interval, that is a double not below
\* 0.0495.  A mean of several scores whose exact value is 0.05 or 0.0495 is a
\* double on the side fp.avg.
C6_LabelOfUnroundedMean ==
    AnalyzedSome =>
        LET c == ReportScores
            n == Len(c)
            s == SumOf(c)
            shown == ret.value.compound_score
            atLeast == s > 500 * n \/ (s = 500 * n /\ (n = 1 \/ fp.avg >= 0))
            atMost == s < -500 * n \/ (s = -500 * n /\ (n = 1 \/ fp.avg <= 0))
        IN  /\ (ret.value.overall_sentiment = "Positive") <=> atLeast
            /\ (ret.value.overall_sentiment = "Negative") <=> atMost
            /\ (ret.value.overall_sentiment = "Neutral") <=> (~atLeast /\ ~atMost)
            /\ 2 * (s - 10 * n * shown) <= 10 * n
            /\ 2 * (10 * n * shown - s) <= 10 * n
            /\ (s > 495 * n /\ s < 500 * n) =>
                   (ret.value.overall_sentiment = "Neutral" /\ shown = 50)
            /\ (s < -495 * n /\ s > -500 * n) =>
                   (ret.value.overall_sentiment = "Neutral" /\ shown = -50)
            /\ (s = 495 * n /\ fp.avg >= 0) =>
                   (ret.value.overall_sentiment = "Neutral" /\ shown = 50)

\* two messages of mean 0.04995: Neutral, shown as 0.05
C6_Witness ==
    /\ AnalyzedSome
    /\ ReportScores = <<500, 499>>
    /\ ret.value.overall_sentiment = "Neutral"
    /\ ret.value.compound_score = 50

IsPrefix(a, b) == Len(a) <= Len(b) /\ SubSeq(b, 1, Len(a)) = a

\* C7: a process_message(m) that returns r extends conversation_history by
\* exactly ('user', m), ('bot', r) at its end and leaves the earlier turns as
\* they were; no step but a reset takes a turn away or changes one, and the
\* history holds two turns for each user message.
C7_AppendOnly ==
    [][ /\ (op' = "process_message" /\ ret'.ok) =>
               /\ conversation_history' =
                      conversation_history \o << <<"user", arg'>>, <<"bot", ret'.value[1]>> >>
               /\ Len(conversation_history') = Len(conversation_history) + 2
        /\ (op' # "reset_conversation") => IsPrefix(conversation_history, conversation_history')
        /\ Len(conversation_history') = 2 * Len(UserTextsOf(conversation_history'))
      ]_vars

\* a second message has been appended behind the first exchange
C7_Witness ==
    /\ op = "process_message"
    /\ ret.ok
    /\ Len(before) = 2
    /\ Len(conversation_history) = 4
    /\ SubSeq(conversation_history, 1, 2) = before

\* C8: reset_conversation leaves the chatbot as __init__ does, the history
\* empty and user_name None, in the one step it takes, whatever was processed
\* before; an analysis of the empty history is the report Neutral, 0.0, 0, {},
\* and every analysis reports on the turns of the current history only.
C8_Reset ==
    [][ /\ (op' = "reset_conversation") =>
               (conversation_history' = <<>> /\ user_name' = None)
        /\ (op' = "get_conversation_analysis" /\ conversation_history' = <<>>) =>
               ret' = [ok |-> TRUE,
                       value |-> [overall_sentiment |-> "Neutral",
                                  compound_score |-> 0,
                                  message_count |-> 0,
                                  sentiment_distribution |-> << >>]]
        /\ (op' = "get_conversation_analysis" /\ conversation_history' # <<>>) =>
               LET texts == UserTextsOf(conversation_history')
               IN  /\ ret'.ok
                   /\ ret'.value.message_count = Len(texts)
                   /\ Len(ret'.value.individual_scores) = Len(texts)
                   /\ \A i \in 1..Len(texts) :
                          ret'.value.individual_scores[i].compound = CompoundOf(texts[i])
      ]_vars

\* a reset has emptied a history of two exchanges
C8_Witness ==
    /\ op = "reset_conversation"
    /\ Len(before) >= 4
    /\ conversation_history = <<>>

\* C9: a non-str input to analyze_message fails with an InvalidInput
\* error that the scorer itself raises.
C9_InvalidInputRaisedByScorer ==
    (pc = "idle" /\ op = "analyze_message" /\ ~IsStr(arg)) =>
        (~ret.ok /\ ret.error = "InvalidInput" /\ ret.raised_by = "scorer")

\* C10: if scoring a user message fails during analyze_conversation, the call
\* fails with that error: no report is returned, the message is not skipped and
\* no score is put in its place; scoring stops at the first failure.
C10_ScoringFailureFailsTheCall ==
    (pc = "idle" /\ op = "analyze_conversation") =>
        LET texts == UserTextsOf(arg)
            failing == {i \in 1..Len(texts) : ~polarity_scores(texts[i]).ok}
        IN  IF failing = {} THEN ret.ok
            ELSE LET first == CHOOSE i \in failing : \A j \in failing : i <= j
                 IN  /\ ~ret.ok
                     /\ ret = polarity_scores(texts[first])
                     /\ calls = SubSeq(texts, 1, first)

\* the second of three user messages could not be scored
C10_Witness ==
    /\ pc = "idle"
    /\ op = "analyze_conversation"
    /\ UserTextsOf(arg) = <<M7, None, M2>>
    /\ ~ret.ok

\* C11: get_conversation_analysis only reads: the history after the call is the
\* history before it; the report is computed at the request, from the current
\* history alone, every user message of it scored again, so message_count is
\* the current number of user turns after any process_message or reset, and
\* an immediate second request returns the same report.
C11_AnalysisReadOnlyFresh ==
    (pc = "idle" /\ op = "get_conversation_analysis") =>
        LET texts == UserTextsOf(conversation_history)
        IN  /\ conversation_history = before
            /\ ret.ok
            /\ ret = analyze_conversation(conversation_history)
            /\ calls = texts
            /\ ret.value.message_count = Len(texts)
            /\ (texts # <<>>) =>
                   /\ Len(ret.value.individual_scores) = Len(texts)
                   /\ \A i \in 1..Len(texts) :
                          ret.value.individual_scores[i].compound = CompoundOf(texts[i])

\* an analysis requested after a second message reports two user messages
C11_Witness ==
    /\ pc = "idle"
    /\ op = "get_conversation_analysis"
    /\ Len(conversation_history) = 4
    /\ ret.ok
    /\ ret.value.message_count = 2

\* C12: process_message scores the message before it stores anything: when the
\* scoring raises in an iteration of the loop of run, the history is what it
\* was before the iteration (no user turn without its reply is left), the
\* error is printed and the loop is at the prompt again; when the iteration
\* completes without an error, the history is extended by the user turn and
\* the reply.
C12_ScoringFailureLeavesHistory ==
    (op = "run_iteration" /\ calls # <<>> /\ ret # Raise("KeyboardInterrupt", "signal")) =>
        /\ calls = <<Str(Strip(arg.val))>>
        /\ IF polarity_scores(calls[1]).ok
           THEN /\ ret.ok
                /\ conversation_history =
                       before \o << <<"user", calls[1]>>, <<"bot", ret.value[1]>> >>
           ELSE /\ ~ret.ok
                /\ ret.raised_by = "engine"
                /\ conversation_history = before
                /\ Len(conversation_history) = 2 * Len(UserTextsOf(conversation_history))
                /\ stdout = << <<"Error", ret.error>> >>
                /\ pc = "input"

\* after one exchange, a message on which the scoring raised: the exchange is
\* all the history holds, and the loop is at the prompt
C12_Witness ==
    /\ op = "run_iteration"
    /\ arg = T_fault
    /\ ~ret.ok
    /\ ret.raised_by = "engine"
    /\ Len(before) = 2
    /\ conversation_history = before
    /\ pc = "input"

\* history strictly alternates user, bot, user, bot from a user turn on
Alternates(history) ==
    \A i \in 1..Len(history) : history[i][1] = IF i % 2 = 1 THEN "user" ELSE "bot"

\* the final analysis of run has printed, as far as it has come, the report
\* of the user turns of the history, every user turn with the score of its
\* own index, and has met no missing key and no index out of range
DisplaysEveryUserTurn ==
    LET texts == UserTextsOf(conversation_history)
        n == Len(texts)
    IN  /\ ret.ok \/ ret = Raise("KeyboardInterrupt", "signal")
        /\ ret.ok <=> pc = "done"
        /\ IF conversation_history = <<>>
           THEN /\ stdout \in {<<>>, << <<"No conversation to analyze.">> >>}
                /\ pc = "done" => stdout # <<>>
           ELSE /\ n >= 1
                /\ Len(stdout) <= 7 + 2 * n
                /\ pc = "done" => Len(stdout) = 7 + 2 * n
                /\ Len(stdout) >= 3 => stdout[3] = <<"Total", n>>
                /\ Len(stdout) >= 7 => stdout[7][1] = "Mood"
                /\ \A k \in 1..n :
                       /\ Len(stdout) >= 6 + 2 * k =>
                              stdout[6 + 2 * k] = <<"User", texts[k]>>
                       /\ Len(stdout) >= 7 + 2 * k =>
                              stdout[7 + 2 * k][2] = ExpectedLabel(CompoundOf(texts[k]))

\* C13: in every state reached through process_message and reset_conversation
\* (and through run, Ctrl-C in it included) the history is empty or alternates
\* user, bot, user, bot from a user turn on; and whenever run displays the
\* final analysis, the history not empty, the report is of at least one user
\* message, has mood_shift and individual_scores, and every user turn is
\* printed with the score of its own index: no key is missing and no index is
\* out of range.
C13_AlternatesAndDisplays ==
    /\ Alternates(conversation_history)
    /\ op = "run_final" => DisplaysEveryUserTurn

\* run, on a chatbot that had an exchange through process_message before,
\* has displayed to its end the final analysis of that exchange and a message
\* Ctrl-C left unanswered
C13_Witness ==
    /\ pc = "done"
    /\ op = "run_final"
    /\ Len(conversation_history) = 3
    /\ conversation_history[1] = <<"user", T_thanks>>
    /\ conversation_history[3][1] = "user"
    /\ ret.ok
    /\ Len(stdout) = 11

\* word occurs in text as a word: not inside a longer run of letters
AsWord(word, text) ==
    LET letter(c) == \E k \in 1..Len(LowerCase) : LowerCase[k] = c
    IN  \E i \in 1..(Len(text) - Len(word) + 1) :
            /\ SubSeq(text, i, i + Len(word) - 1) = word
            /\ (i = 1 \/ ~letter(text[i - 1]))
            /\ (i + Len(word) > Len(text) \/ ~letter(text[i + Len(word)]))

\* C14: the reply of process_message to a message without a greeting, farewell
\* or topic keyword as a word is one of the templates of the message's own
\* label, and a greeting template is the reply only to a message with one of
\* the words hello, hi, hey, greetings.
C14_ReplyMatchesSentiment ==
    (pc = "idle" /\ op = "process_message" /\ ret.ok) =>
        LET text == Lower(arg.val)
            keywords == GreetingWords \cup FarewellWords \cup ProblemWords
                            \cup PriceWords \cup ThankWords
            bot_response == ret.value[1]
            label == ret.value[2].label
        IN  /\ (\A word \in keywords : ~AsWord(word, text)) =>
                   bot_response \in Choice(Responses(label))
            /\ bot_response \in Choice(Responses("greeting")) =>
                   \E word \in GreetingWords : AsWord(word, text)

====
